---- MODULE Spec2Model ----
(***************************************************************************)
(* A model of radicle-surf's diff core:                                    *)
(*   - the tree differ  Diff::diff / Diff::collect_diff   (diff.rs)        *)
(*   - the Diff aggregate, its append operations and Diff::stats (diff.rs) *)
(*   - the git2 adapter  TryFrom<git2::Diff> for Diff     (diff/git.rs)    *)
(*                                                                         *)
(* Labels are modelled by their rank in Label's total order (naturals);    *)
(* a Path is the sequence of its labels, root first.                       *)
(***************************************************************************)
EXTENDS Integers, Sequences, FiniteSets, TLC

VARIABLES
    old,        \* `left`  argument of Diff::diff (the older Directory)
    new,        \* `right` argument of Diff::diff (the newer Directory)
    pc,         \* position of the running operation
    stack,      \* call stack of collect_diff: one frame per active call
    path,       \* the Rc<RefCell<Path>> accumulator shared by the traversal
    diff,       \* the Diff aggregate being built
    last_op,    \* the operation applied last to `diff` (builder runs)
    result,     \* value returned by the last stats() or Hunks::try_from
                \* call, as Option
    git_diff,   \* the git2::Diff handed to the adapter
    idx,        \* position of the adapter in git_diff.deltas()
    error,      \* the error::Diff the adapter returned, as Option
    suspended   \* the locals of a second call of Diff::diff that is not
                \* running at the moment, as Option

treeVars == <<old, new, stack, path>>
builderVars == <<last_op, result>>
adapterVars == <<git_diff, idx, error>>

vars == <<old, new, pc, stack, path, diff, last_op, result, git_diff, idx, error,
          suspended>>

----------------------------------------------------------------------------
(* Bounds of the model *)

MaxName == 2        \* entry labels range over 1..MaxName
MaxEntries == 3     \* entries of the old and the new snapshot together
MaxOps == 3         \* append operations of one builder run
MaxDeltas == 2      \* deltas of one git2::Diff
MaxHunks == 3       \* hunks of one git2::Patch

Labels == 1..MaxName
RootLabel == 0

\* The differ only tests sizes and checksums for equality.
FileSizes == {1, 2}
Checksums == {1, 2}

----------------------------------------------------------------------------
(* Snapshot model: file_system::Directory / DirectoryContents *)

File(name, size, checksum) ==
    [kind |-> "File", name |-> name, size |-> size, checksum |-> checksum]

Directory(name, contents) ==
    [kind |-> "Directory", name |-> name, contents |-> contents]

RECURSIVE NumEntries(_)
NumEntries(contents) ==
    IF contents = <<>> THEN 0
    ELSE LET e == Head(contents) IN
         1 + (IF e.kind = "Directory" THEN NumEntries(e.contents) ELSE 0)
           + NumEntries(Tail(contents))

Files(names) ==
    { File(n, s, c) : n \in names, s \in FileSizes, c \in Checksums }

\* Content lists sorted by label with unique labels: the labels are drawn
\* from lo..MaxName in increasing order and the list holds at most e entries
\* in total, nested ones included.
RECURSIVE SortedContents(_, _)
SortedContents(lo, e) ==
    {<<>>} \cup
    (IF e = 0 THEN {}
     ELSE UNION { UNION {
            { <<first>> \o rest :
                rest \in SortedContents(n + 1, e - 1 - NumEntries(
                            IF first.kind = "Directory" THEN first.contents
                            ELSE <<>>)) }
            : first \in Files({n}) \cup
                { Directory(n, c) : c \in SortedContents(1, e - 1) } }
          : n \in lo..MaxName })

\* Content lists with unique labels in any order.
RECURSIVE AnyOrderContents(_, _)
AnyOrderContents(names, e) ==
    {<<>>} \cup
    (IF e = 0 THEN {}
     ELSE UNION { UNION {
            { <<first>> \o rest :
                rest \in AnyOrderContents(names \ {n}, e - 1 - NumEntries(
                            IF first.kind = "Directory" THEN first.contents
                            ELSE <<>>)) }
            : first \in Files({n}) \cup
                { Directory(n, c) : c \in AnyOrderContents(Labels, e - 1) } }
          : n \in names })

\* The concrete scenario: labels A = 1, x = 2, z = 3.
ScenarioOld ==
    Directory(RootLabel, << Directory(1, << File(2, 1, 1) >>), File(3, 10, 1) >>)
ScenarioNew ==
    Directory(RootLabel, << File(1, 3, 1), File(3, 20, 1) >>)

\* A snapshot with files two directories deep, and one where a file takes
\* the place of its top directory.
DeepOld ==
    Directory(RootLabel,
        << Directory(1, << Directory(1, << File(1, 1, 1), File(2, 1, 2) >>),
                           File(2, 1, 1) >>),
           File(2, 2, 1),
           File(3, 1, 1) >>)
DeepNew ==
    Directory(RootLabel, << File(1, 1, 1), File(2, 2, 2), File(3, 1, 1) >>)

\* Two snapshots that share a directory whose contents differ: a changed
\* file, a directory replaced by a file, an added file.
NestedOld ==
    Directory(RootLabel,
        << Directory(1, << File(1, 1, 1), Directory(2, << File(1, 1, 1) >>) >>),
           File(2, 1, 1) >>)
NestedNew ==
    Directory(RootLabel,
        << Directory(1, << File(1, 2, 1), File(2, 1, 1), File(3, 1, 1) >>),
           File(3, 1, 1) >>)

\* Inputs beyond the entry budget.
Scenarios ==
    { <<ScenarioOld, ScenarioNew>>, <<ScenarioNew, ScenarioOld>>,
      <<DeepOld, DeepNew>>, <<DeepNew, DeepOld>>, <<DeepOld, DeepOld>>,
      <<NestedOld, NestedNew>>, <<NestedNew, NestedOld>> }

----------------------------------------------------------------------------
(* Diff data model *)

Hunks_default == <<>>

Plain(hunks) == [type |-> "Plain", hunks |-> hunks]
Binary == [type |-> "Binary"]

\* `stats` is the field the adapter assigns (diff/git.rs); it is None until
\* then.
Diff_new ==
    [created |-> <<>>, deleted |-> <<>>, moved |-> <<>>, copied |-> <<>>,
     modified |-> <<>>, stats |-> <<>>]

Hunk(header, lines) == [header |-> header, lines |-> lines]

\* LineDiff::addition / deletion / context
addition(line, line_num) ==
    [type |-> "Addition", line |-> line, line_num |-> line_num]
deletion(line, line_num) ==
    [type |-> "Deletion", line |-> line, line_num |-> line_num]
context(line, line_num_old, line_num_new) ==
    [type |-> "Context", line |-> line,
     line_num_old |-> line_num_old, line_num_new |-> line_num_new]

Path_push(p, label) == Append(p, label)
Path_pop(p) == IF Len(p) > 1 THEN SubSeq(p, 1, Len(p) - 1) ELSE p

add_modified_file(d, p, hunks, eof) ==
    [d EXCEPT !.modified =
        Append(@, [path |-> p, diff |-> Plain(hunks), eof |-> eof])]

add_moved_file(d, old_path, new_path) ==
    [d EXCEPT !.moved = Append(@, [old_path |-> old_path, new_path |-> new_path])]

add_copied_file(d, old_path, new_path) ==
    [d EXCEPT !.copied = Append(@, [old_path |-> old_path, new_path |-> new_path])]

add_modified_binary_file(d, p) ==
    [d EXCEPT !.modified =
        Append(@, [path |-> p, diff |-> Binary, eof |-> "None"])]

add_created_file(d, p, fd) ==
    [d EXCEPT !.created = Append(@, [path |-> p, diff |-> fd])]

\* Variant: the entry is put in front of the list.
add_deleted_file_front(d, p, fd) ==
    [d EXCEPT !.deleted = << [path |-> p, diff |-> fd] >> \o @]

add_deleted_file(d, p, fd) ==
    [d EXCEPT !.deleted = Append(@, [path |-> p, diff |-> fd])]

----------------------------------------------------------------------------
(* Enumeration of the files of an entry *)

\* The closure handed to collect_files_from_entry by add_created_files and
\* add_deleted_files: both build {path, diff: Plain {hunks: default}}.
mapper(p) == [path |-> p, diff |-> Plain(Hunks_default)]

RECURSIVE collect_files_inner(_, _, _), collect_files_loop(_, _, _, _)

\* Variant: nested directories are passed over instead of descended into.
collect_files_loop_flat(contents, i, parent_path, files) ==
    IF i > Len(contents) THEN [path |-> parent_path, files |-> files]
    ELSE LET entry == contents[i] IN
         IF entry.kind = "Directory"
         THEN collect_files_loop(contents, i + 1, parent_path, files)
         ELSE collect_files_loop(contents, i + 1, parent_path,
                  Append(files, mapper(Path_push(parent_path, entry.name))))

\* The `for entry in dir.contents()` loop of collect_files_inner, from the
\* i-th entry on.
collect_files_loop(contents, i, parent_path, files) ==
    IF i > Len(contents) THEN [path |-> parent_path, files |-> files]
    ELSE LET entry == contents[i] IN
         IF entry.kind = "Directory"
         THEN LET r == collect_files_inner(entry, parent_path, files)
              IN  collect_files_loop(contents, i + 1, r.path, r.files)
         ELSE collect_files_loop(contents, i + 1, parent_path,
                  Append(files, mapper(Path_push(parent_path, entry.name))))

\* Variant: the label of the directory stays on the accumulator.
collect_files_inner_no_pop(dir, parent_path, files) ==
    LET r == collect_files_loop(dir.contents, 1,
                                Path_push(parent_path, dir.name), files)
    IN  [path |-> r.path, files |-> r.files]

collect_files_inner(dir, parent_path, files) ==
    LET r == collect_files_loop(dir.contents, 1,
                                Path_push(parent_path, dir.name), files)
    IN  [path |-> Path_pop(r.path), files |-> r.files]

collect_files(dir, parent_path) == collect_files_inner(dir, parent_path, <<>>)

collect_files_from_entry(entry, parent_path) ==
    IF entry.kind = "Directory"
    THEN collect_files(entry, parent_path)
    ELSE [path |-> parent_path,
          files |-> << mapper(Path_push(parent_path, entry.name)) >>]

add_created_files(d, dc, parent_path) ==
    LET r == collect_files_from_entry(dc, parent_path)
    IN  [diff |-> [d EXCEPT !.created = @ \o r.files], path |-> r.path]

add_deleted_files(d, dc, parent_path) ==
    LET r == collect_files_from_entry(dc, parent_path)
    IN  [diff |-> [d EXCEPT !.deleted = @ \o r.files], path |-> r.path]

----------------------------------------------------------------------------
(* Diff::stats *)

RECURSIVE CountLines(_, _)
\* Number of lines of the given kinds in a sequence of lines.
CountLines(lines, kinds) ==
    IF lines = <<>> THEN 0
    ELSE (IF Head(lines).type \in kinds THEN 1 ELSE 0)
         + CountLines(Tail(lines), kinds)

RECURSIVE CountHunks(_, _)
\* `for hunk in hunks.iter() { for line in &hunk.lines { ... } }`
CountHunks(hunks, kinds) ==
    IF hunks = <<>> THEN 0
    ELSE CountLines(Head(hunks).lines, kinds) + CountHunks(Tail(hunks), kinds)

RECURSIVE CountFiles(_, _)
\* `for file in &list { if let FileDiff::Plain { ref hunks } = file.diff ... }`
CountFiles(files, kinds) ==
    IF files = <<>> THEN 0
    ELSE (IF Head(files).diff.type = "Plain"
          THEN CountHunks(Head(files).diff.hunks, kinds) ELSE 0)
         + CountFiles(Tail(files), kinds)

\* Variant: context lines of modified files count as insertions.
stats_context(d) ==
    [files_changed |-> Len(d.modified) + Len(d.created) + Len(d.deleted),
     insertions |-> CountFiles(d.modified, {"Addition", "Context"})
                    + CountFiles(d.created, {"Addition"}),
     deletions |-> CountFiles(d.modified, {"Deletion"})
                   + CountFiles(d.deleted, {"Deletion"})]

stats(d) ==
    [files_changed |-> Len(d.modified) + Len(d.created) + Len(d.deleted),
     insertions |-> CountFiles(d.modified, {"Addition"})
                    + CountFiles(d.created, {"Addition"}),
     deletions |-> CountFiles(d.modified, {"Deletion"})
                   + CountFiles(d.deleted, {"Deletion"})]

----------------------------------------------------------------------------
(* The tree differ: Diff::diff and the co-scan loop of Diff::collect_diff *)

Frame(o, n) == [old |-> o, new |-> n, oi |-> 1, ni |-> 1]

Top == stack[Len(stack)]
HasOld == Top.oi <= Len(Top.old.contents)      \* old_entry_opt.is_some()
HasNew == Top.ni <= Len(Top.new.contents)      \* new_entry_opt.is_some()
old_entry == Top.old.contents[Top.oi]
new_entry == Top.new.contents[Top.ni]

\* old_iter.next() / new_iter.next() on the running call
Next_entries(o, n) ==
    [stack EXCEPT ![Len(stack)] = [@ EXCEPT !.oi = @ + o, !.ni = @ + n]]

Scanning == pc = "collect_diff" /\ stack # <<>>
BothSome == Scanning /\ HasOld /\ HasNew
\* Variant: entries are matched by position, whatever their labels.
Equal_by_position == BothSome
Equal == BothSome /\ new_entry.name = old_entry.name

\* Diff::diff up to the call of collect_diff
Diff_diff ==
    /\ pc = "diff"
    /\ diff' = Diff_new
    /\ path' = << new.name >>
    /\ stack' = << Frame(old, new) >>
    /\ pc' = "collect_diff"
    /\ UNCHANGED <<old, new, builderVars, adapterVars, suspended>>

\* Variant: the old cursor is not advanced.
Greater_stuck ==
    /\ BothSome /\ new_entry.name > old_entry.name
    /\ LET r == add_deleted_files(diff, old_entry, path)
       IN  diff' = r.diff /\ path' = r.path
    /\ stack' = Next_entries(0, 0)
    /\ UNCHANGED <<old, new, pc, builderVars, adapterVars, suspended>>

\* Variant: the arm does what the Less arm does.
Greater_as_less ==
    /\ BothSome /\ new_entry.name > old_entry.name
    /\ LET r == add_created_files(diff, new_entry, path)
       IN  diff' = r.diff /\ path' = r.path
    /\ stack' = Next_entries(0, 1)
    /\ UNCHANGED <<old, new, pc, builderVars, adapterVars, suspended>>

\* Ordering::Greater
Greater ==
    /\ BothSome /\ new_entry.name > old_entry.name
    /\ LET r == add_deleted_files(diff, old_entry, path)
       IN  diff' = r.diff /\ path' = r.path
    /\ stack' = Next_entries(1, 0)
    /\ UNCHANGED <<old, new, pc, builderVars, adapterVars, suspended>>

\* Ordering::Less
Less ==
    /\ BothSome /\ new_entry.name < old_entry.name
    /\ LET r == add_created_files(diff, new_entry, path)
       IN  diff' = r.diff /\ path' = r.path
    /\ stack' = Next_entries(0, 1)
    /\ UNCHANGED <<old, new, pc, builderVars, adapterVars, suspended>>

\* Variant: every pair of equally named files is recorded as modified.
FileFile_always ==
    /\ Equal /\ new_entry.kind = "File" /\ old_entry.kind = "File"
    /\ diff' = add_modified_file(diff, Path_push(path, new_entry.name),
                                 <<>>, "None")
    /\ stack' = Next_entries(1, 1)
    /\ UNCHANGED <<old, new, pc, path, builderVars, adapterVars, suspended>>

\* Variant: the checksums are not compared.
FileFile_size_only ==
    /\ Equal /\ new_entry.kind = "File" /\ old_entry.kind = "File"
    /\ diff' = IF old_entry.size # new_entry.size
               THEN add_modified_file(diff, Path_push(path, new_entry.name),
                                      <<>>, "None")
               ELSE diff
    /\ stack' = Next_entries(1, 1)
    /\ UNCHANGED <<old, new, pc, path, builderVars, adapterVars, suspended>>

\* Ordering::Equal, (File, File)
FileFile ==
    /\ Equal /\ new_entry.kind = "File" /\ old_entry.kind = "File"
    /\ diff' = IF old_entry.size # new_entry.size
                  \/ old_entry.checksum # new_entry.checksum
               THEN add_modified_file(diff, Path_push(path, new_entry.name),
                                      <<>>, "None")
               ELSE diff
    /\ stack' = Next_entries(1, 1)
    /\ UNCHANGED <<old, new, pc, path, builderVars, adapterVars, suspended>>

\* Variant: the type change is recorded as a modification of N.
FileDirectory_modified ==
    /\ Equal /\ new_entry.kind = "File" /\ old_entry.kind = "Directory"
    /\ LET d1 == add_modified_file(diff, Path_push(path, new_entry.name),
                                   <<>>, "None")
           r == add_deleted_files(d1, old_entry, path)
       IN  diff' = r.diff /\ path' = r.path
    /\ stack' = Next_entries(1, 1)
    /\ UNCHANGED <<old, new, pc, builderVars, adapterVars, suspended>>

\* Ordering::Equal, (File, Directory): new is a file, old is a directory
FileDirectory ==
    /\ Equal /\ new_entry.kind = "File" /\ old_entry.kind = "Directory"
    /\ LET d1 == add_created_file(diff, Path_push(path, new_entry.name),
                                  Plain(Hunks_default))
           r == add_deleted_files(d1, old_entry, path)
       IN  diff' = r.diff /\ path' = r.path
    /\ stack' = Next_entries(1, 1)
    /\ UNCHANGED <<old, new, pc, builderVars, adapterVars, suspended>>

\* Variant: the old cursor stays on the file that was replaced.
DirectoryFile_stuck ==
    /\ Equal /\ new_entry.kind = "Directory" /\ old_entry.kind = "File"
    /\ LET p == Path_push(path, old_entry.name)
           r == add_created_files(diff, new_entry, path)
       IN  /\ diff' = add_deleted_file(r.diff, p, Plain(Hunks_default))
           /\ path' = r.path
    /\ stack' = Next_entries(0, 1)
    /\ UNCHANGED <<old, new, pc, builderVars, adapterVars, suspended>>

\* Ordering::Equal, (Directory, File): new is a directory, old is a file
DirectoryFile ==
    /\ Equal /\ new_entry.kind = "Directory" /\ old_entry.kind = "File"
    /\ LET p == Path_push(path, old_entry.name)
           r == add_created_files(diff, new_entry, path)
       IN  /\ diff' = add_deleted_file(r.diff, p, Plain(Hunks_default))
           /\ path' = r.path
    /\ stack' = Next_entries(1, 1)
    /\ UNCHANGED <<old, new, pc, builderVars, adapterVars, suspended>>

\* Ordering::Equal, (Directory, Directory): push the label and recurse
DirectoryDirectory ==
    /\ Equal /\ new_entry.kind = "Directory" /\ old_entry.kind = "Directory"
    /\ path' = Path_push(path, new_entry.name)
    /\ stack' = Append(stack, Frame(old_entry, new_entry))
    /\ UNCHANGED <<old, new, pc, diff, builderVars, adapterVars, suspended>>

\* (Some(old_entry), None)
OnlyOld ==
    /\ Scanning /\ HasOld /\ ~HasNew
    /\ LET r == add_deleted_files(diff, old_entry, path)
       IN  diff' = r.diff /\ path' = r.path
    /\ stack' = Next_entries(1, 0)
    /\ UNCHANGED <<old, new, pc, builderVars, adapterVars, suspended>>

\* (None, Some(new_entry))
OnlyNew ==
    /\ Scanning /\ ~HasOld /\ HasNew
    /\ LET r == add_created_files(diff, new_entry, path)
       IN  diff' = r.diff /\ path' = r.path
    /\ stack' = Next_entries(0, 1)
    /\ UNCHANGED <<old, new, pc, builderVars, adapterVars, suspended>>

\* The loop of a recursive call ends: return into the (Directory, Directory)
\* arm of the caller, which pops the label and advances both cursors.
collect_diff_return ==
    /\ Scanning /\ ~HasOld /\ ~HasNew /\ Len(stack) > 1
    /\ path' = Path_pop(path)
    /\ stack' = [SubSeq(stack, 1, Len(stack) - 1) EXCEPT ![Len(stack) - 1] =
                    [@ EXCEPT !.oi = @ + 1, !.ni = @ + 1]]
    /\ UNCHANGED <<old, new, pc, diff, builderVars, adapterVars, suspended>>

\* Variant: a deleted and a created file are unified into a move.
Diff_diff_return_rename ==
    /\ Scanning /\ ~HasOld /\ ~HasNew /\ Len(stack) = 1
    /\ stack' = <<>>
    /\ pc' = "done"
    /\ diff' = IF diff.deleted # <<>> /\ diff.created # <<>>
               THEN [diff EXCEPT
                        !.deleted = Tail(@),
                        !.created = Tail(@),
                        !.moved = Append(@,
                            [old_path |-> Head(diff.deleted).path,
                             new_path |-> Head(diff.created).path])]
               ELSE diff
    /\ UNCHANGED <<old, new, path, builderVars, adapterVars, suspended>>

\* The loop of the outermost call ends: Diff::diff returns `diff`
Diff_diff_return ==
    /\ Scanning /\ ~HasOld /\ ~HasNew /\ Len(stack) = 1
    /\ stack' = <<>>
    /\ pc' = "done"
    /\ UNCHANGED <<old, new, path, diff, builderVars, adapterVars, suspended>>

NoDirectory == Directory(RootLabel, <<>>)
NoGitDiff == [deltas |-> <<>>, stats_ok |-> TRUE]

InitLocals ==
    /\ pc = "diff"
    /\ stack = <<>>
    /\ path = <<>>
    /\ diff = Diff_new
    /\ last_op = "none"
    /\ result = <<>>
    /\ git_diff = NoGitDiff
    /\ idx = 0
    /\ error = <<>>

InitCommon ==
    /\ InitLocals
    /\ suspended = <<>>

\* Snapshots as the file system hands them out: sorted by label.
Init ==
    /\ \/ /\ old \in { Directory(RootLabel, c) :
                        c \in SortedContents(1, MaxEntries) }
          /\ new \in { Directory(RootLabel, c) :
                        c \in SortedContents(1,
                                  MaxEntries - NumEntries(old.contents)) }
       \/ \E s \in Scenarios : old = s[1] /\ new = s[2]
    /\ InitCommon

Next ==
    \/ Diff_diff
    \/ Greater
    \/ Less
    \/ FileFile
    \/ FileDirectory
    \/ DirectoryFile
    \/ DirectoryDirectory
    \/ OnlyOld
    \/ OnlyNew
    \/ collect_diff_return
    \/ Diff_diff_return

Spec == Init /\ [][Next]_vars

\* Snapshots of one entry less than those of Init, and the scenarios.
InitFair ==
    /\ \/ /\ old \in { Directory(RootLabel, c) :
                        c \in SortedContents(1, MaxEntries - 1) }
          /\ new \in { Directory(RootLabel, c) :
                        c \in SortedContents(1,
                                  MaxEntries - 1 - NumEntries(old.contents)) }
       \/ \E s \in Scenarios : old = s[1] /\ new = s[2]
    /\ InitCommon

\* Diff::diff is a sequential function: a call that can take a step takes
\* it.
SpecFair == InitFair /\ [][Next]_vars /\ WF_vars(Next)

\* Snapshots whose entries come in any order (labels still unique).
InitAnyOrder ==
    /\ old \in { Directory(RootLabel, c) :
                    c \in AnyOrderContents(Labels, MaxEntries) }
    /\ new \in { Directory(RootLabel, c) :
                    c \in AnyOrderContents(Labels,
                              MaxEntries - NumEntries(old.contents)) }
    /\ InitCommon

SpecAnyOrder == InitAnyOrder /\ [][Next]_vars

----------------------------------------------------------------------------
(* Diff::diff as a function of its arguments, and two calls in progress *)

RECURSIVE collect_diff(_, _, _, _, _, _)
\* Diff::collect_diff from the oi-th entry of `o` and the ni-th entry of `n`
\* on, with accumulator p and aggregate d: the value of both at its return.
collect_diff(o, n, oi, ni, p, d) ==
    LET has_old == oi <= Len(o.contents)
        has_new == ni <= Len(n.contents)
        oe == o.contents[oi]
        ne == n.contents[ni]
    IN
    IF ~has_old /\ ~has_new THEN [diff |-> d, path |-> p]
    ELSE IF ~has_new
    THEN LET r == add_deleted_files(d, oe, p)
         IN  collect_diff(o, n, oi + 1, ni, r.path, r.diff)
    ELSE IF ~has_old
    THEN LET r == add_created_files(d, ne, p)
         IN  collect_diff(o, n, oi, ni + 1, r.path, r.diff)
    ELSE IF ne.name > oe.name
    THEN LET r == add_deleted_files(d, oe, p)
         IN  collect_diff(o, n, oi + 1, ni, r.path, r.diff)
    ELSE IF ne.name < oe.name
    THEN LET r == add_created_files(d, ne, p)
         IN  collect_diff(o, n, oi, ni + 1, r.path, r.diff)
    ELSE IF ne.kind = "File" /\ oe.kind = "File"
    THEN collect_diff(o, n, oi + 1, ni + 1, p,
             IF oe.size # ne.size \/ oe.checksum # ne.checksum
             THEN add_modified_file(d, Path_push(p, ne.name), <<>>, "None")
             ELSE d)
    ELSE IF ne.kind = "File" /\ oe.kind = "Directory"
    THEN LET d1 == add_created_file(d, Path_push(p, ne.name),
                                    Plain(Hunks_default))
             r == add_deleted_files(d1, oe, p)
         IN  collect_diff(o, n, oi + 1, ni + 1, r.path, r.diff)
    ELSE IF ne.kind = "Directory" /\ oe.kind = "File"
    THEN LET r == add_created_files(d, ne, p)
         IN  collect_diff(o, n, oi + 1, ni + 1, r.path,
                 add_deleted_file(r.diff, Path_push(p, oe.name),
                                  Plain(Hunks_default)))
    ELSE LET r == collect_diff(oe, ne, 1, 1, Path_push(p, ne.name), d)
         IN  collect_diff(o, n, oi + 1, ni + 1, Path_pop(r.path), r.diff)

\* Diff::diff(left, right), run from its call to its return
Diff_diff_alone(left, right) ==
    collect_diff(left, right, 1, 1, << right.name >>, Diff_new).diff

\* What one call of Diff::diff holds: its arguments, its position and its
\* two locals `diff` and `path`.
Locals == [old |-> old, new |-> new, pc |-> pc, stack |-> stack,
           path |-> path, diff |-> diff]

Calling == pc \in {"diff", "collect_diff", "done"} /\ suspended # <<>>

\* Variant: the two calls work on one path accumulator.
Switch_shared_path ==
    /\ Calling
    /\ LET s == suspended[1]
       IN  /\ old' = s.old /\ new' = s.new
           /\ pc' = s.pc /\ stack' = s.stack
           /\ path' = path /\ diff' = s.diff
    /\ suspended' = << Locals >>
    /\ UNCHANGED <<builderVars, adapterVars>>

\* The running call is suspended and the other one goes on where it
\* stopped, on its own `diff` and `path`.
Switch ==
    /\ Calling
    /\ LET s == suspended[1]
       IN  /\ old' = s.old /\ new' = s.new
           /\ pc' = s.pc /\ stack' = s.stack
           /\ path' = s.path /\ diff' = s.diff
    /\ suspended' = << Locals >>
    /\ UNCHANGED <<builderVars, adapterVars>>

\* One call on a sorted pair of snapshots; with it none, the call on the
\* exchanged pair, or a call on the nested pair.
InitPair ==
    /\ \/ /\ old \in { Directory(RootLabel, c) :
                        c \in SortedContents(1, MaxEntries - 1) }
          /\ new \in { Directory(RootLabel, c) :
                        c \in SortedContents(1,
                                  MaxEntries - 1 - NumEntries(old.contents)) }
       \/ \E s \in Scenarios : old = s[1] /\ new = s[2]
    /\ InitLocals
    /\ suspended \in {<<>>} \cup
          { << [old |-> s[1], new |-> s[2], pc |-> "diff", stack |-> <<>>,
                path |-> <<>>, diff |-> Diff_new] >> :
              s \in { <<new, old>>, <<NestedOld, NestedNew>> } }

NextPair ==
    \/ Diff_diff
    \/ Greater
    \/ Less
    \/ FileFile
    \/ FileDirectory
    \/ DirectoryFile
    \/ DirectoryDirectory
    \/ OnlyOld
    \/ OnlyNew
    \/ collect_diff_return
    \/ Diff_diff_return
    \/ Switch

SpecPair == InitPair /\ [][NextPair]_vars

----------------------------------------------------------------------------
(* The Diff aggregate under its append operations and stats() *)

SamplePath == << RootLabel, 1 >>
OtherPath == << RootLabel, 2 >>

\* Lists of hunks that mix the three kinds of line, in one and in two hunks.
SampleHunks ==
    { <<>>,
      << Hunk(1, << addition(1, 1), context(2, 1, 2) >>) >>,
      << Hunk(1, << deletion(1, 1) >>),
         Hunk(2, << addition(1, 3), deletion(2, 3), context(3, 4, 4) >>) >> }

FileDiffs == { Binary } \cup { Plain(h) : h \in SampleHunks }

NumAppended ==
    Len(diff.created) + Len(diff.deleted) + Len(diff.modified)
    + Len(diff.moved) + Len(diff.copied)

Building == pc = "build" /\ NumAppended < MaxOps

Applied(d, op) ==
    /\ diff' = d
    /\ last_op' = op
    /\ UNCHANGED <<treeVars, pc, result, adapterVars, suspended>>

AddCreated ==
    /\ Building
    /\ \E fd \in FileDiffs :
          Applied(add_created_file(diff, SamplePath, fd), "add_created_file")

AddDeleted ==
    /\ Building
    /\ \E fd \in FileDiffs :
          Applied(add_deleted_file(diff, SamplePath, fd), "add_deleted_file")

AddModified ==
    /\ Building
    /\ \E h \in SampleHunks, eof \in {"None", "BothMissing"} :
          Applied(add_modified_file(diff, SamplePath, h, eof), "add_modified_file")

AddModifiedBinary ==
    /\ Building
    /\ Applied(add_modified_binary_file(diff, SamplePath),
               "add_modified_binary_file")

AddMoved ==
    /\ Building
    /\ Applied(add_moved_file(diff, SamplePath, OtherPath), "add_moved_file")

AddCopied ==
    /\ Building
    /\ Applied(add_copied_file(diff, SamplePath, OtherPath), "add_copied_file")

\* Variant: the Stats computed first is kept and handed out again.
CallStats_cached ==
    /\ pc = "build"
    /\ result' = IF result = <<>> THEN << stats(diff) >> ELSE result
    /\ last_op' = "stats"
    /\ UNCHANGED <<treeVars, pc, diff, adapterVars, suspended>>

\* A call of stats(): `&self`, returns a fresh Stats.
CallStats ==
    /\ pc = "build"
    /\ result' = << stats(diff) >>
    /\ last_op' = "stats"
    /\ UNCHANGED <<treeVars, pc, diff, adapterVars, suspended>>

InitBuilder ==
    /\ old = NoDirectory /\ new = NoDirectory
    /\ pc = "build"
    /\ stack = <<>>
    /\ path = <<>>
    /\ diff = Diff_new
    /\ last_op = "none"
    /\ result = <<>>
    /\ git_diff = NoGitDiff
    /\ idx = 0
    /\ error = <<>>
    /\ suspended = <<>>

NextBuilder ==
    \/ AddCreated
    \/ AddDeleted
    \/ AddModified
    \/ AddModifiedBinary
    \/ AddMoved
    \/ AddCopied
    \/ CallStats

SpecBuilder == InitBuilder /\ [][NextBuilder]_vars

----------------------------------------------------------------------------
(* The git2 adapter: TryFrom<git2::Patch> for DiffContent,                 *)
(* TryFrom<git2::DiffLine> for Modification, TryFrom<git2::Diff> for Diff  *)

None == <<>>
Some(x) == << x >>

\* A git2::DiffLine: its origin_value(), old_lineno(), new_lineno(), content()
DiffLine(origin, old_lineno, new_lineno, content) ==
    [origin |-> origin, old_lineno |-> old_lineno, new_lineno |-> new_lineno,
     content |-> content]

\* A git2::DiffDelta with the outcome of git2::Patch::from_diff for it
Delta(status, old_path, new_path, binary, patch) ==
    [status |-> status,
     old_file |-> [path |-> old_path, is_binary |-> binary],
     new_file |-> [path |-> new_path, is_binary |-> binary],
     patch |-> patch]

\* The errors of diff/git.rs: error::Modification, error::Hunk, error::Diff
error_Invalid == [type |-> "Invalid"]
error_Line(e) == [type |-> "Line", source |-> e]
error_Hunk(e) == [type |-> "Hunk", source |-> e]
error_Git == [type |-> "Git"]
error_DeltaUnhandled(status) == [type |-> "DeltaUnhandled", status |-> status]
error_PatchUnavailable(p) == [type |-> "PatchUnavailable", path |-> p]
error_PathUnavailable == [type |-> "PathUnavailable"]

\* Variant: a context line takes its two line numbers the other way round.
Modification_try_from_swapped(line) ==
    IF line.old_lineno = None /\ line.new_lineno # None
    THEN [ok |-> TRUE, value |-> addition(line.content, line.new_lineno[1])]
    ELSE IF line.old_lineno # None /\ line.new_lineno = None
    THEN [ok |-> TRUE, value |-> deletion(line.content, line.old_lineno[1])]
    ELSE IF line.old_lineno # None /\ line.new_lineno # None
    THEN [ok |-> TRUE,
          value |-> context(line.content, line.new_lineno[1], line.old_lineno[1])]
    ELSE [ok |-> FALSE, err |-> error_Invalid]

Modification_try_from(line) ==
    IF line.old_lineno = None /\ line.new_lineno # None
    THEN [ok |-> TRUE, value |-> addition(line.content, line.new_lineno[1])]
    ELSE IF line.old_lineno # None /\ line.new_lineno = None
    THEN [ok |-> TRUE, value |-> deletion(line.content, line.old_lineno[1])]
    ELSE IF line.old_lineno # None /\ line.new_lineno # None
    THEN [ok |-> TRUE,
          value |-> context(line.content, line.old_lineno[1], line.new_lineno[1])]
    ELSE [ok |-> FALSE, err |-> error_Invalid]

RECURSIVE scan_lines(_, _, _)

\* Variant: a line without line numbers is passed over.
scan_lines_skip(native, l, st) ==
    IF l > Len(native) \/ st.err # None THEN st
    ELSE LET line == native[l] IN
         IF line.origin = "ContextEOFNL"
         THEN scan_lines(native, l + 1,
                  [st EXCEPT !.new_missing_eof = TRUE, !.old_missing_eof = TRUE])
         ELSE IF line.origin = "AddEOFNL"
         THEN scan_lines(native, l + 1, [st EXCEPT !.old_missing_eof = TRUE])
         ELSE IF line.origin = "DeleteEOFNL"
         THEN scan_lines(native, l + 1, [st EXCEPT !.new_missing_eof = TRUE])
         ELSE LET m == Modification_try_from(line) IN
              IF m.ok
              THEN scan_lines(native, l + 1,
                       [st EXCEPT !.lines = Append(@, m.value)])
              ELSE scan_lines(native, l + 1, st)

\* `for l in 0..hunk_lines` of DiffContent::try_from, from the l-th line on;
\* st carries lines, old_missing_eof, new_missing_eof and the error, if any.
scan_lines(native, l, st) ==
    IF l > Len(native) \/ st.err # None THEN st
    ELSE LET line == native[l] IN
         IF line.origin = "ContextEOFNL"
         THEN scan_lines(native, l + 1,
                  [st EXCEPT !.new_missing_eof = TRUE, !.old_missing_eof = TRUE])
         ELSE IF line.origin = "AddEOFNL"
         THEN scan_lines(native, l + 1, [st EXCEPT !.old_missing_eof = TRUE])
         ELSE IF line.origin = "DeleteEOFNL"
         THEN scan_lines(native, l + 1, [st EXCEPT !.new_missing_eof = TRUE])
         ELSE LET m == Modification_try_from(line) IN
              IF m.ok
              THEN scan_lines(native, l + 1,
                       [st EXCEPT !.lines = Append(@, m.value)])
              ELSE [st EXCEPT !.err = Some(error_Line(m.err))]

RECURSIVE scan_hunks(_, _, _)

\* Variant: a converted hunk is put in front of the ones before it.
scan_hunks_front(patch, h, st) ==
    IF h > Len(patch) \/ st.err # None THEN st
    ELSE LET r == scan_lines(patch[h].lines, 1, [st EXCEPT !.lines = <<>>])
         IN  IF r.err # None THEN r
             ELSE scan_hunks(patch, h + 1,
                      [r EXCEPT !.hunks = << Hunk(patch[h].header, r.lines) >> \o @])

\* Variant: the two flags start again at false with every hunk.
scan_hunks_reset(patch, h, st) ==
    IF h > Len(patch) \/ st.err # None THEN st
    ELSE LET r == scan_lines(patch[h].lines, 1,
                      [st EXCEPT !.lines = <<>>, !.old_missing_eof = FALSE,
                                 !.new_missing_eof = FALSE])
         IN  IF r.err # None THEN r
             ELSE scan_hunks(patch, h + 1,
                      [r EXCEPT !.hunks = Append(@, Hunk(patch[h].header, r.lines))])

\* `for h in 0..patch.num_hunks()` of DiffContent::try_from, from the h-th
\* hunk on.
scan_hunks(patch, h, st) ==
    IF h > Len(patch) \/ st.err # None THEN st
    ELSE LET r == scan_lines(patch[h].lines, 1, [st EXCEPT !.lines = <<>>])
         IN  IF r.err # None THEN r
             ELSE scan_hunks(patch, h + 1,
                      [r EXCEPT !.hunks = Append(@, Hunk(patch[h].header, r.lines))])

\* Variant: the outcomes of one-sided flags are exchanged.
DiffContent_try_from_exchanged(patch) ==
    LET r == scan_hunks(patch, 1,
                 [hunks |-> <<>>, lines |-> <<>>, old_missing_eof |-> FALSE,
                  new_missing_eof |-> FALSE, err |-> None])
        eof == IF r.old_missing_eof /\ r.new_missing_eof THEN "BothMissing"
               ELSE IF r.old_missing_eof THEN "NewMissing"
               ELSE IF r.new_missing_eof THEN "OldMissing"
               ELSE "NoneMissing"
    IN  IF r.err # None THEN [ok |-> FALSE, err |-> r.err[1]]
        ELSE [ok |-> TRUE,
              value |-> [type |-> "Plain", hunks |-> r.hunks, eof |-> eof]]

DiffContent_try_from(patch) ==
    LET r == scan_hunks(patch, 1,
                 [hunks |-> <<>>, lines |-> <<>>, old_missing_eof |-> FALSE,
                  new_missing_eof |-> FALSE, err |-> None])
        eof == IF r.old_missing_eof /\ r.new_missing_eof THEN "BothMissing"
               ELSE IF r.old_missing_eof THEN "OldMissing"
               ELSE IF r.new_missing_eof THEN "NewMissing"
               ELSE "NoneMissing"
    IN  IF r.err # None THEN [ok |-> FALSE, err |-> r.err[1]]
        ELSE [ok |-> TRUE,
              value |-> [type |-> "Plain", hunks |-> r.hunks, eof |-> eof]]

DiffContent_Binary == [type |-> "Binary"]

\* TryFrom<git2::DiffLine> for LineDiff, the per-line classification that
\* Hunks::try_from calls.
LineDiff_try_from(line) == Modification_try_from(line)

RECURSIVE Hunks_try_from_lines(_, _, _)
\* `for l in 0..hunk_lines` of Hunks::try_from, from the l-th line on.
Hunks_try_from_lines(native, l, lines) ==
    IF l > Len(native) THEN [ok |-> TRUE, value |-> lines]
    ELSE LET m == LineDiff_try_from(native[l]) IN
         IF m.ok THEN Hunks_try_from_lines(native, l + 1, Append(lines, m.value))
         ELSE [ok |-> FALSE, err |-> error_Line(m.err)]

RECURSIVE Hunks_try_from_hunks(_, _, _)
\* `for h in 0..patch.num_hunks()` of Hunks::try_from, from the h-th hunk on.
Hunks_try_from_hunks(patch, h, hunks) ==
    IF h > Len(patch) THEN [ok |-> TRUE, value |-> hunks]
    ELSE LET r == Hunks_try_from_lines(patch[h].lines, 1, <<>>) IN
         IF r.ok
         THEN Hunks_try_from_hunks(patch, h + 1,
                  Append(hunks, Hunk(patch[h].header, r.value)))
         ELSE r

\* TryFrom<git2::Patch> for Hunks
Hunks_try_from(patch) == Hunks_try_from_hunks(patch, 1, <<>>)

\* The insert operations of the aggregate, used by the adapter.
FileDiff_of(content) ==
    IF content.type = "Plain" THEN Plain(content.hunks) ELSE Binary

insert_added(d, p, content) == add_created_file(d, p, FileDiff_of(content))
insert_deleted(d, p, content) == add_deleted_file(d, p, FileDiff_of(content))
insert_modified(d, p, content) ==
    IF content.type = "Plain"
    THEN add_modified_file(d, p, content.hunks, content.eof)
    ELSE add_modified_binary_file(d, p)
insert_moved(d, old_path, new_path) == add_moved_file(d, old_path, new_path)
insert_copied(d, old_path, new_path) == add_copied_file(d, old_path, new_path)

RECURSIVE OriginCount(_, _)
\* Lines of a given origin in the hunks of a patch.
OriginCount(patch, origin) ==
    IF patch = <<>> THEN 0
    ELSE Cardinality({ l \in DOMAIN Head(patch).lines :
                          Head(patch).lines[l].origin = origin })
         + OriginCount(Tail(patch), origin)

RECURSIVE PatchesCount(_, _)
PatchesCount(deltas, origin) ==
    IF deltas = <<>> THEN 0
    ELSE (IF Head(deltas).patch # None
          THEN OriginCount(Head(deltas).patch[1], origin) ELSE 0)
         + PatchesCount(Tail(deltas), origin)

\* git2::Diff::stats(): libgit2 counts every delta as a changed file and the
\* added and removed lines of every patch.
DiffStats(gd) ==
    [files_changed |-> Len(gd.deltas),
     insertions |-> PatchesCount(gd.deltas, "Addition"),
     deletions |-> PatchesCount(gd.deltas, "Deletion")]

\* From<git2::DiffStats> for Stats
Stats_from(st) ==
    [files_changed |-> st.files_changed,
     insertions |-> st.insertions,
     deletions |-> st.deletions]

Converting == pc = "try_from" /\ idx >= 1 /\ idx <= Len(git_diff.deltas)
delta == git_diff.deltas[idx]

\* Variant: the error is noted and the loop goes on with the next delta.
Fail_continue(e) ==
    /\ error' = Some(e)
    /\ idx' = idx + 1
    /\ UNCHANGED <<treeVars, builderVars, diff, git_diff, pc, suspended>>

Fail(e) ==
    /\ error' = Some(e)
    /\ pc' = "err"
    /\ UNCHANGED <<treeVars, builderVars, diff, git_diff, idx, suspended>>

Inserted(d) ==
    /\ diff' = d
    /\ idx' = idx + 1
    /\ UNCHANGED <<treeVars, builderVars, pc, git_diff, error, suspended>>

\* Diff::new(), diff.stats = git_diff.stats()?.into()
TryFrom_stats ==
    /\ pc = "try_from" /\ idx = 0
    /\ IF git_diff.stats_ok
       THEN /\ diff' = [Diff_new EXCEPT !.stats = Some(Stats_from(DiffStats(git_diff)))]
            /\ idx' = 1
            /\ UNCHANGED <<treeVars, builderVars, pc, git_diff, error, suspended>>
       ELSE /\ error' = Some(error_Git)
            /\ pc' = "err"
            /\ diff' = Diff_new
            /\ UNCHANGED <<treeVars, builderVars, git_diff, idx, suspended>>

\* Variant: a file without patch that is not binary gets an empty content.
content_of_empty(file) ==
    IF delta.patch # None
    THEN LET c == DiffContent_try_from(delta.patch[1]) IN
         IF c.ok THEN c ELSE [ok |-> FALSE, err |-> error_Hunk(c.err)]
    ELSE IF file.is_binary THEN [ok |-> TRUE, value |-> DiffContent_Binary]
    ELSE [ok |-> TRUE,
          value |-> [type |-> "Plain", hunks |-> <<>>, eof |-> "NoneMissing"]]

\* Patch::from_diff and the branches on it: the converted patch, Binary for
\* a binary file without patch, PatchUnavailable otherwise.
content_of(file) ==
    IF delta.patch # None
    THEN LET c == DiffContent_try_from(delta.patch[1]) IN
         IF c.ok THEN c ELSE [ok |-> FALSE, err |-> error_Hunk(c.err)]
    ELSE IF file.is_binary THEN [ok |-> TRUE, value |-> DiffContent_Binary]
    ELSE [ok |-> FALSE, err |-> error_PatchUnavailable(file.path[1])]

created ==
    /\ Converting /\ delta.status = "Added"
    /\ LET diff_file == delta.new_file IN
       IF diff_file.path = None THEN Fail(error_PathUnavailable)
       ELSE LET c == content_of(diff_file) IN
            IF c.ok THEN Inserted(insert_added(diff, diff_file.path[1], c.value))
            ELSE Fail(c.err)

\* Variant: a deleted file is looked up on the new side.
deleted_new_file ==
    /\ Converting /\ delta.status = "Deleted"
    /\ LET diff_file == delta.new_file IN
       IF diff_file.path = None THEN Fail(error_PathUnavailable)
       ELSE LET c == content_of(diff_file) IN
            IF c.ok THEN Inserted(insert_deleted(diff, diff_file.path[1], c.value))
            ELSE Fail(c.err)

deleted ==
    /\ Converting /\ delta.status = "Deleted"
    /\ LET diff_file == delta.old_file IN
       IF diff_file.path = None THEN Fail(error_PathUnavailable)
       ELSE LET c == content_of(diff_file) IN
            IF c.ok THEN Inserted(insert_deleted(diff, diff_file.path[1], c.value))
            ELSE Fail(c.err)

\* Variant: the entry of a modified file is recorded under its old path.
modified_old_path ==
    /\ Converting /\ delta.status = "Modified"
    /\ LET diff_file == delta.old_file IN
       IF diff_file.path = None THEN Fail(error_PathUnavailable)
       ELSE LET c == content_of(diff_file) IN
            IF c.ok THEN Inserted(insert_modified(diff, diff_file.path[1], c.value))
            ELSE Fail(c.err)

modified ==
    /\ Converting /\ delta.status = "Modified"
    /\ LET diff_file == delta.new_file IN
       IF diff_file.path = None THEN Fail(error_PathUnavailable)
       ELSE LET c == content_of(diff_file) IN
            IF c.ok THEN Inserted(insert_modified(diff, diff_file.path[1], c.value))
            ELSE Fail(c.err)

renamed ==
    /\ Converting /\ delta.status = "Renamed"
    /\ IF delta.old_file.path = None \/ delta.new_file.path = None
       THEN Fail(error_PathUnavailable)
       ELSE Inserted(insert_moved(diff, delta.old_file.path[1],
                                  delta.new_file.path[1]))

copied ==
    /\ Converting /\ delta.status = "Copied"
    /\ IF delta.old_file.path = None \/ delta.new_file.path = None
       THEN Fail(error_PathUnavailable)
       ELSE Inserted(insert_copied(diff, delta.old_file.path[1],
                                   delta.new_file.path[1]))

\* Variant: a delta of another status is passed over.
DeltaUnhandled_skip ==
    /\ Converting
    /\ delta.status \notin {"Added", "Deleted", "Modified", "Renamed", "Copied"}
    /\ Inserted(diff)

\* `status => return Err(error::Diff::DeltaUnhandled(status))`
DeltaUnhandled ==
    /\ Converting
    /\ delta.status \notin {"Added", "Deleted", "Modified", "Renamed", "Copied"}
    /\ Fail(error_DeltaUnhandled(delta.status))

\* Ok(diff)
TryFrom_return ==
    /\ pc = "try_from" /\ idx > Len(git_diff.deltas)
    /\ pc' = "ok"
    /\ UNCHANGED <<treeVars, builderVars, diff, git_diff, idx, error, suspended>>

\* A call of Hunks::try_from on the patch of the first file, in place of
\* the conversion of the whole backend diff.
CallHunksTryFrom ==
    /\ pc = "try_from" /\ idx = 0
    /\ git_diff.deltas # <<>> /\ git_diff.deltas[1].patch # None
    /\ result' = Some(Hunks_try_from(git_diff.deltas[1].patch[1]))
    /\ last_op' = "Hunks::try_from"
    /\ pc' = "hunks"
    /\ UNCHANGED <<treeVars, diff, adapterVars, suspended>>

\* Patches of the backend: additions only, deletions only, two hunks with a
\* missing-newline marker, and one with a line that has no line number.
PatchAdd ==
    << Hunk(1, << DiffLine("Addition", None, Some(1), 1),
                  DiffLine("Addition", None, Some(2), 2) >>) >>
PatchDel ==
    << Hunk(1, << DiffLine("Deletion", Some(1), None, 1) >>) >>
PatchMod ==
    << Hunk(1, << DiffLine("Context", Some(1), Some(1), 1),
                  DiffLine("Deletion", Some(2), None, 2),
                  DiffLine("Addition", None, Some(2), 3) >>),
       Hunk(2, << DiffLine("Addition", None, Some(5), 4),
                  DiffLine("AddEOFNL", Some(3), None, 0) >>) >>
PatchInvalid ==
    << Hunk(1, << DiffLine("Addition", None, Some(1), 1),
                  DiffLine("Context", None, None, 2) >>) >>

DeltaSamples ==
    { Delta("Added", None, Some(SamplePath), FALSE, Some(PatchAdd)),
      Delta("Added", None, Some(SamplePath), TRUE, None),
      Delta("Added", None, Some(SamplePath), FALSE, None),
      Delta("Added", None, None, FALSE, Some(PatchAdd)),
      Delta("Deleted", Some(SamplePath), None, FALSE, Some(PatchDel)),
      Delta("Deleted", Some(SamplePath), None, TRUE, None),
      Delta("Modified", Some(SamplePath), Some(SamplePath), FALSE, Some(PatchMod)),
      Delta("Modified", Some(SamplePath), Some(SamplePath), TRUE, None),
      Delta("Modified", Some(SamplePath), Some(SamplePath), TRUE, Some(PatchMod)),
      Delta("Modified", Some(SamplePath), Some(SamplePath), FALSE, Some(PatchInvalid)),
      Delta("Renamed", Some(SamplePath), Some(OtherPath), FALSE, None),
      Delta("Renamed", Some(SamplePath), None, FALSE, None),
      Delta("Copied", Some(SamplePath), Some(OtherPath), FALSE, None),
      Delta("Unmodified", Some(SamplePath), Some(SamplePath), FALSE, None),
      Delta("Typechange", Some(SamplePath), Some(SamplePath), FALSE, Some(PatchAdd)),
      Delta("Modified", Some(OtherPath), Some(SamplePath), FALSE, Some(PatchAdd)),
      Delta("Modified", None, Some(SamplePath), FALSE, Some(PatchMod)),
      Delta("Modified", Some(SamplePath), None, FALSE, None),
      Delta("Modified", Some(SamplePath), Some(SamplePath), FALSE, None),
      Delta("Deleted", Some(OtherPath), Some(SamplePath), FALSE, Some(PatchDel)),
      Delta("Deleted", None, Some(SamplePath), FALSE, Some(PatchDel)),
      Delta("Deleted", Some(SamplePath), None, FALSE, None),
      Delta("Copied", None, Some(OtherPath), FALSE, None) }

InitAdapter ==
    /\ old = NoDirectory /\ new = NoDirectory
    /\ pc = "try_from"
    /\ stack = <<>>
    /\ path = <<>>
    /\ diff = Diff_new
    /\ last_op = "none"
    /\ result = <<>>
    /\ git_diff \in { [deltas |-> ds, stats_ok |-> ok] :
                        ds \in UNION { [1..k -> DeltaSamples] : k \in 0..MaxDeltas },
                        ok \in BOOLEAN }
    /\ idx = 0
    /\ error = <<>>
    /\ suspended = <<>>

NextAdapter ==
    \/ TryFrom_stats
    \/ created
    \/ deleted
    \/ modified
    \/ renamed
    \/ copied
    \/ DeltaUnhandled
    \/ TryFrom_return

SpecAdapter == InitAdapter /\ [][NextAdapter]_vars

\* Line records of the backend: an added, a removed and an unchanged line,
\* a line without line numbers, the three missing-newline markers with the
\* line numbers libgit2 gives them (a DeleteEOFNL record is numbered like
\* an addition, an AddEOFNL record like a deletion, a ContextEOFNL record
\* like a context line), and a marker without line numbers.
LineSamples ==
    { DiffLine("Addition", None, Some(3), 11),
      DiffLine("Deletion", Some(4), None, 12),
      DiffLine("Context", Some(5), Some(6), 13),
      DiffLine("Context", None, None, 14),
      DiffLine("ContextEOFNL", Some(7), Some(8), 15),
      DiffLine("AddEOFNL", Some(7), None, 16),
      DiffLine("DeleteEOFNL", None, Some(8), 17),
      DiffLine("ContextEOFNL", None, None, 18) }

\* Line lists of a hunk: up to two of the line records, in any order.
HunkLines == UNION { [1..n -> LineSamples] : n \in 0..2 }

\* Line lists of the hunks of longer patches.
HunkSamples ==
    { <<>>,
      << DiffLine("Addition", None, Some(3), 11),
         DiffLine("Deletion", Some(4), None, 12),
         DiffLine("Context", Some(5), Some(6), 13) >>,
      << DiffLine("Context", Some(5), Some(6), 13),
         DiffLine("ContextEOFNL", Some(7), Some(8), 15) >>,
      << DiffLine("Addition", None, Some(3), 11),
         DiffLine("AddEOFNL", Some(7), None, 16) >>,
      << DiffLine("DeleteEOFNL", None, Some(8), 17),
         DiffLine("Deletion", Some(4), None, 12) >>,
      << DiffLine("Context", Some(5), Some(6), 13),
         DiffLine("Context", None, None, 14),
         DiffLine("Addition", None, Some(3), 11) >> }

\* Patches of up to k hunks with the given line lists; the h-th hunk has
\* the header 20 + h.
PatchesOver(lines, k) ==
    UNION { { [h \in 1..n |-> Hunk(20 + h, f[h])] : f \in [1..n -> lines] }
            : n \in 0..k }

\* One file per backend diff: a modified file with any patch of up to two
\* hunks or with a longer one, an added and a deleted file with a patch of
\* at most one hunk.
PatchDeltas ==
    { Delta("Modified", Some(OtherPath), Some(SamplePath), FALSE, Some(p)) :
        p \in PatchesOver(HunkLines, 2) \cup PatchesOver(HunkSamples, MaxHunks) }
    \cup { Delta("Added", None, Some(SamplePath), FALSE, Some(p)) :
             p \in PatchesOver(HunkLines, 1) }
    \cup { Delta("Deleted", Some(SamplePath), None, FALSE, Some(p)) :
             p \in PatchesOver(HunkLines, 1) }

InitPatch ==
    /\ old = NoDirectory /\ new = NoDirectory
    /\ pc = "try_from"
    /\ stack = <<>>
    /\ path = <<>>
    /\ diff = Diff_new
    /\ last_op = "none"
    /\ result = <<>>
    /\ git_diff \in { [deltas |-> << d >>, stats_ok |-> TRUE] : d \in PatchDeltas }
    /\ idx = 0
    /\ error = <<>>
    /\ suspended = <<>>

NextPatch ==
    \/ CallHunksTryFrom
    \/ TryFrom_stats
    \/ created
    \/ deleted
    \/ modified
    \/ TryFrom_return

SpecPatch == InitPatch /\ [][NextPatch]_vars

----------------------------------------------------------------------------
(* Vocabulary of the properties *)

Done == pc = "done"

RECURSIVE NodePaths(_)
\* The relative paths of all entries of a content list, nested ones included.
NodePaths(contents) ==
    UNION { {<< contents[i].name >>} \cup
            (IF contents[i].kind = "Directory"
             THEN { << contents[i].name >> \o q : q \in NodePaths(contents[i].contents) }
             ELSE {})
          : i \in DOMAIN contents }

\* Every path that names an entry of the old or of the new snapshot,
\* relative to the root.
RelPaths == NodePaths(old.contents) \cup NodePaths(new.contents)

RECURSIVE EntriesAt(_, _)
\* The entries a relative path leads to in a content list.
EntriesAt(contents, p) ==
    LET here == { contents[i] :
                    i \in { j \in DOMAIN contents : contents[j].name = p[1] } }
    IN  IF Len(p) = 1 THEN here
        ELSE UNION { EntriesAt(e.contents, Tail(p)) :
                        e \in { x \in here : x.kind = "Directory" } }

FileAt(dir, p) == { e \in EntriesAt(dir.contents, p) : e.kind = "File" }
DirectoryAt(dir, p) == { e \in EntriesAt(dir.contents, p) : e.kind = "Directory" }
FilesOf(dir) == { p \in RelPaths : FileAt(dir, p) # {} }

\* The path the differ records for a relative path: the accumulator starts
\* as the label of the new root.
Abs(p) == << new.name >> \o p

PathSet(list) == { list[i].path : i \in DOMAIN list }
Count(list, p) == Cardinality({ i \in DOMAIN list : list[i].path = p })

IsPrefix(p, q) == Len(p) < Len(q) /\ SubSeq(q, 1, Len(p)) = p

Differ(p) ==
    \E o \in FileAt(old, p), n \in FileAt(new, p) :
        o.size # n.size \/ o.checksum # n.checksum

RECURSIVE IsSorted(_)
IsSorted(contents) ==
    /\ \A i \in 1..(Len(contents) - 1) : contents[i].name < contents[i + 1].name
    /\ \A i \in DOMAIN contents :
          contents[i].kind = "Directory" => IsSorted(contents[i].contents)

----------------------------------------------------------------------------
(* C1: on sorted snapshots with unique labels per directory Diff::diff     *)
(* returns created = exactly the paths that are files in new and not files *)
(* in old, deleted = exactly the paths that are files in old and not files *)
(* in new, modified = exactly the paths that are files in both and differ  *)
(* in size or checksum, at every nesting depth.                            *)
C1_TreeDiffContract ==
    Done =>
        /\ PathSet(diff.created) =
              { Abs(p) : p \in FilesOf(new) \ FilesOf(old) }
        /\ PathSet(diff.deleted) =
              { Abs(p) : p \in FilesOf(old) \ FilesOf(new) }
        /\ PathSet(diff.modified) =
              { Abs(p) : p \in { q \in FilesOf(old) \cap FilesOf(new) : Differ(q) } }

C1_Witness ==
    /\ Done
    /\ diff.created # <<>> /\ diff.deleted # <<>> /\ diff.modified # <<>>
    /\ \E e \in PathSet(diff.created) \cup PathSet(diff.deleted) : Len(e) >= 3

(* C2: diffing a snapshot against an identical copy of itself yields empty *)
(* created, deleted, modified, moved and copied lists.                     *)
C2_Idempotence ==
    (Done /\ old = new) => diff = Diff_new

C2_Witness ==
    /\ Done /\ old = new
    /\ \E p \in FilesOf(old) : Len(p) >= 2

(* C3: a file N in new matched against a directory N in old yields exactly *)
(* one created entry for N, exactly one deleted entry for every file       *)
(* nested at any depth under old N, and no modified entry for N; the       *)
(* concrete scenario gives created=[A], deleted=[A/x], modified=[z].       *)
C3_FileReplacesDirectory ==
    Done =>
        /\ \A p \in RelPaths :
              (FileAt(new, p) # {} /\ DirectoryAt(old, p) # {}) =>
                  /\ Count(diff.created, Abs(p)) = 1
                  /\ Count(diff.modified, Abs(p)) = 0
                  /\ \A q \in FilesOf(old) :
                        IsPrefix(p, q) => Count(diff.deleted, Abs(q)) = 1
        /\ (old = ScenarioOld /\ new = ScenarioNew) =>
              /\ diff.created = << mapper(<<RootLabel, 1>>) >>
              /\ diff.deleted = << mapper(<<RootLabel, 1, 2>>) >>
              /\ diff.modified = << [path |-> <<RootLabel, 3>>,
                                     diff |-> Plain(<<>>), eof |-> "None"] >>
              /\ diff.moved = <<>>
              /\ diff.copied = <<>>

C3_Witness ==
    /\ Done
    /\ \E p \in RelPaths :
          /\ FileAt(new, p) # {} /\ DirectoryAt(old, p) # {}
          /\ \E q \in FilesOf(old) : IsPrefix(p, q) /\ Len(q) >= Len(p) + 2

(* C4: a directory N in new matched against a file N in old yields exactly *)
(* one deleted entry for N, one created entry for every file nested at any *)
(* depth under new N, no modified entry for N, and the step that handles   *)
(* the pair advances both cursors past N.                                  *)
C4_DirectoryReplacesFile ==
    /\ [](Done =>
            \A p \in RelPaths :
                (DirectoryAt(new, p) # {} /\ FileAt(old, p) # {}) =>
                    /\ Count(diff.deleted, Abs(p)) = 1
                    /\ Count(diff.modified, Abs(p)) = 0
                    /\ \A q \in FilesOf(new) :
                          IsPrefix(p, q) => Count(diff.created, Abs(q)) = 1)
    /\ [][(Equal /\ new_entry.kind = "Directory" /\ old_entry.kind = "File") =>
            /\ Len(stack') = Len(stack)
            /\ Top'.oi = Top.oi + 1
            /\ Top'.ni = Top.ni + 1]_vars

C4_Witness ==
    /\ Done
    /\ \E p \in RelPaths :
          /\ DirectoryAt(new, p) # {} /\ FileAt(old, p) # {}
          /\ \E q \in FilesOf(new) : IsPrefix(p, q) /\ Len(q) >= Len(p) + 2

(* C5: two files with the same name in the same directory are recorded as  *)
(* modified iff their size or checksum differs; the entry carries a Plain  *)
(* content-diff with zero hunks and no EOF anomaly; equal files leave no   *)
(* entry for that path.                                                    *)
C5_FileFileRule ==
    Done =>
        /\ \A p \in FilesOf(old) \cap FilesOf(new) :
              /\ Differ(p) => Count(diff.modified, Abs(p)) = 1
              /\ ~Differ(p) =>
                    /\ Count(diff.modified, Abs(p)) = 0
                    /\ Count(diff.created, Abs(p)) = 0
                    /\ Count(diff.deleted, Abs(p)) = 0
        /\ \A i \in DOMAIN diff.modified :
              /\ diff.modified[i].diff = Plain(<<>>)
              /\ diff.modified[i].eof = "None"

C5_Witness ==
    /\ Done
    /\ \E p, q \in FilesOf(old) \cap FilesOf(new) :
          /\ ~Differ(p)
          /\ \E o \in FileAt(old, q), n \in FileAt(new, q) :
                o.size = n.size /\ o.checksum # n.checksum

(* C6: a file with the same name, size and checksum in old and new is      *)
(* never placed in the modified list, for every ordering of its sibling    *)
(* entries in either snapshot, sorted by name or not.                      *)
C6_OrderInsensitive ==
    Done =>
        \A p \in FilesOf(old) \cap FilesOf(new) :
            ~Differ(p) => Abs(p) \notin PathSet(diff.modified)

C6_Witness ==
    /\ Done
    /\ ~IsSorted(old.contents)
    /\ \E p \in FilesOf(old) \cap FilesOf(new) :
          ~Differ(p) /\ Abs(p) \in PathSet(diff.created)

(* C7: the moved and copied lists of the tree diff are always empty; a     *)
(* file present at P only in old and, with identical size and checksum, at *)
(* a different path Q only in new is reported as one deleted entry P and   *)
(* one created entry Q.                                                    *)
C7_NoRenameInference ==
    /\ diff.moved = <<>> /\ diff.copied = <<>>
    /\ Done =>
          \A p \in FilesOf(old) \ FilesOf(new), q \in FilesOf(new) \ FilesOf(old) :
              (\E o \in FileAt(old, p), n \in FileAt(new, q) :
                    o.size = n.size /\ o.checksum = n.checksum) =>
                  /\ Count(diff.deleted, Abs(p)) = 1
                  /\ Count(diff.created, Abs(q)) = 1
                  /\ \A i \in DOMAIN diff.moved :
                        diff.moved[i] # [old_path |-> Abs(p), new_path |-> Abs(q)]

C7_Witness ==
    /\ Done
    /\ \E p \in FilesOf(old) \ FilesOf(new), q \in FilesOf(new) \ FilesOf(old) :
          /\ Len(p) # Len(q)
          /\ \E o \in FileAt(old, p), n \in FileAt(new, q) :
                o.size = n.size /\ o.checksum = n.checksum

\* The line positions (entry, hunk, line) of the given kinds in the Plain
\* content-diffs of a list.
KindPositions(list, kinds) ==
    UNION { UNION { { <<i, h, l>> :
                        l \in { k \in DOMAIN list[i].diff.hunks[h].lines :
                                  list[i].diff.hunks[h].lines[k].type \in kinds } }
                    : h \in DOMAIN list[i].diff.hunks }
            : i \in { j \in DOMAIN list : list[j].diff.type = "Plain" } }

KindCount(list, kinds) == Cardinality(KindPositions(list, kinds))

\* The Stats a Diff value reports: what stats() computes and, when the
\* adapter has assigned it, the stored field.
Reported(d) == { stats(d) } \cup { d.stats[i] : i \in DOMAIN d.stats }

\* A finished tree diff, a converted backend diff, a Diff under construction
\* by the append operations.
Produced == pc \in {"done", "ok", "build"}

(* C8: for every Diff built by the append operations or produced by the    *)
(* tree diff or the adapter, the reported files_changed equals             *)
(* |created| + |deleted| + |modified|; moved and copied never contribute.  *)
C8_StatsConsistency ==
    Produced =>
        \A s \in Reported(diff) :
            s.files_changed =
                Len(diff.created) + Len(diff.deleted) + Len(diff.modified)

(* C9 as stated: insertions counts the Addition lines and deletions the    *)
(* Deletion lines of every Plain content-diff in created, deleted and      *)
(* modified; Context lines and Binary content-diffs count for neither.     *)
C9_LineCountsAllLists ==
    last_op = "stats" =>
        /\ result[1].insertions =
              KindCount(diff.created, {"Addition"})
              + KindCount(diff.deleted, {"Addition"})
              + KindCount(diff.modified, {"Addition"})
        /\ result[1].deletions =
              KindCount(diff.created, {"Deletion"})
              + KindCount(diff.deleted, {"Deletion"})
              + KindCount(diff.modified, {"Deletion"})

(* C9 amended: insertions counts the Addition lines of the Plain           *)
(* content-diffs in modified and created, deletions the Deletion lines of  *)
(* those in modified and deleted; Deletion lines of created entries,       *)
(* Addition lines of deleted entries, Context lines and Binary             *)
(* content-diffs count for neither.                                        *)
C9_LineCounts ==
    last_op = "stats" =>
        /\ result[1].insertions =
              KindCount(diff.created, {"Addition"})
              + KindCount(diff.modified, {"Addition"})
        /\ result[1].deletions =
              KindCount(diff.deleted, {"Deletion"})
              + KindCount(diff.modified, {"Deletion"})

C9_Witness ==
    /\ last_op = "stats"
    /\ KindCount(diff.created, {"Deletion"}) > 0
    /\ KindCount(diff.modified, {"Addition"}) > 0
    /\ KindCount(diff.modified, {"Context"}) > 0
    /\ \E i \in DOMAIN diff.deleted : diff.deleted[i].diff = Binary
    /\ result[1].insertions > 0

----------------------------------------------------------------------------
(* Vocabulary of the adapter properties *)

\* A step of the adapter that converted the delta at idx.
Handled == Converting /\ idx' = idx + 1

EOFMarkers == {"ContextEOFNL", "AddEOFNL", "DeleteEOFNL"}
IsMarker(r) == r.origin \in EOFMarkers
IsOrdinary(r) == r.origin \notin EOFMarkers
NoPosition(r) == r.old_lineno = <<>> /\ r.new_lineno = <<>>

\* The line records of a patch, as (hunk, line) positions.
Records(patch) ==
    UNION { { <<h, l>> : l \in DOMAIN patch[h].lines } : h \in DOMAIN patch }
RecordAt(patch, pos) == patch[pos[1]].lines[pos[2]]

\* The side of a delta whose path its handler records.
RecordedSide(d) == IF d.status = "Deleted" THEN d.old_file ELSE d.new_file

\* The delta under conversion has a status whose handler reads the patch,
\* the path of its recorded side, and a patch.
ReadsPatch ==
    /\ Converting
    /\ delta.status \in {"Added", "Deleted", "Modified"}
    /\ RecordedSide(delta).path # <<>>
    /\ delta.patch # <<>>

\* The list a status is recorded in, and the entry a Handled step appended.
ListOf(status) ==
    CASE status = "Added" -> "created"
      [] status = "Deleted" -> "deleted"
      [] status = "Modified" -> "modified"
      [] status = "Renamed" -> "moved"
      [] status = "Copied" -> "copied"
Lists == {"created", "deleted", "modified", "moved", "copied"}
NewEntry == diff'[ListOf(delta.status)][Len(diff'[ListOf(delta.status)])]

(* C11: every line record of a converted patch that is not an EOF marker   *)
(* becomes, in its hunk and in order, Addition(content, new position) when *)
(* only the new position is present, Deletion(content, old position) when  *)
(* only the old one is, Context(content, old position, new position) when  *)
(* both are; content and positions are passed through unchanged.           *)
C11_PerLineClassification ==
    [][(Handled /\ ReadsPatch) =>
         LET patch == delta.patch[1]
             out == NewEntry.diff
         IN  /\ out.type = "Plain"
             /\ DOMAIN out.hunks = DOMAIN patch
             /\ \A h \in DOMAIN patch :
                   LET native == SelectSeq(patch[h].lines, IsOrdinary)
                       lines == out.hunks[h].lines
                   IN  /\ DOMAIN lines = DOMAIN native
                       /\ \A j \in DOMAIN native :
                             LET r == native[j] IN
                             /\ (r.old_lineno = <<>> /\ r.new_lineno # <<>>) =>
                                   lines[j] = [type |-> "Addition",
                                               line |-> r.content,
                                               line_num |-> r.new_lineno[1]]
                             /\ (r.old_lineno # <<>> /\ r.new_lineno = <<>>) =>
                                   lines[j] = [type |-> "Deletion",
                                               line |-> r.content,
                                               line_num |-> r.old_lineno[1]]
                             /\ (r.old_lineno # <<>> /\ r.new_lineno # <<>>) =>
                                   lines[j] = [type |-> "Context",
                                               line |-> r.content,
                                               line_num_old |-> r.old_lineno[1],
                                               line_num_new |-> r.new_lineno[1]]
    ]_vars

C11_Witness ==
    /\ pc = "ok"
    /\ Len(git_diff.deltas) = 1 /\ Len(diff.modified) = 1
    /\ KindCount(diff.modified, {"Addition"}) > 0
    /\ KindCount(diff.modified, {"Deletion"}) > 0
    /\ KindCount(diff.modified, {"Context"}) > 0
    /\ \E pos \in Records(git_diff.deltas[1].patch[1]) :
          IsMarker(RecordAt(git_diff.deltas[1].patch[1], pos))

(* C12 as stated: a line record with neither position present, anywhere in *)
(* the patch of a file, makes the conversion fail with Invalid and leaves  *)
(* the Diff without an entry, hunk or line of that file.                   *)
C12_MalformedLineAnyRecord ==
    [][(ReadsPatch /\ \E pos \in Records(delta.patch[1]) :
                          NoPosition(RecordAt(delta.patch[1], pos))) =>
         /\ pc' = "err"
         /\ error' = << error_Hunk(error_Line(error_Invalid)) >>
         /\ diff' = diff
    ]_vars

(* C12 amended: a line record that is not an EOF marker and has neither    *)
(* position present, in any hunk and at any position of the patch of a     *)
(* file, makes the conversion fail with Invalid; the Diff is left as it    *)
(* was: no entry of that file in any list, no hunk or line collected       *)
(* before the bad line. An EOF marker record without positions does not    *)
(* fail.                                                                   *)
C12_MalformedLineSafety ==
    [][(ReadsPatch /\ \E pos \in Records(delta.patch[1]) :
                          /\ IsOrdinary(RecordAt(delta.patch[1], pos))
                          /\ NoPosition(RecordAt(delta.patch[1], pos))) =>
         /\ pc' = "err"
         /\ error' = << error_Hunk(error_Line(error_Invalid)) >>
         /\ diff' = diff
    ]_vars

C12_Witness ==
    /\ pc = "err"
    /\ error = << error_Hunk(error_Line(error_Invalid)) >>
    /\ \A l \in Lists : diff[l] = <<>>
    /\ LET patch == git_diff.deltas[1].patch[1] IN
       /\ \E pos \in Records(patch) :
             /\ pos[1] = 2 /\ pos[2] = 2
             /\ IsOrdinary(RecordAt(patch, pos)) /\ NoPosition(RecordAt(patch, pos))
       /\ Len(patch[1].lines) = 2
       /\ \A pos \in Records(patch) :
             NoPosition(RecordAt(patch, pos)) => pos = <<2, 2>>

\* The markers of a patch with one of the given origins.
HasMarker(patch, origins) ==
    \E pos \in Records(patch) : RecordAt(patch, pos).origin \in origins

(* C13: the old-missing flag of a converted patch is set exactly when a    *)
(* context-side or an addition-side marker occurs in any of its hunks, the *)
(* new-missing flag exactly when a context-side or a deletion-side marker  *)
(* occurs in any of its hunks: the flags start false, are never reset and  *)
(* accumulate over all hunks of the file.                                  *)
C13_EofMarkerTracking ==
    [][(Handled /\ ReadsPatch /\ delta.status = "Modified") =>
         LET patch == delta.patch[1]
             eof == NewEntry.eof
         IN  /\ eof \in {"OldMissing", "BothMissing"} <=>
                    HasMarker(patch, {"ContextEOFNL", "AddEOFNL"})
             /\ eof \in {"NewMissing", "BothMissing"} <=>
                    HasMarker(patch, {"ContextEOFNL", "DeleteEOFNL"})
    ]_vars

C13_Witness ==
    /\ pc = "ok" /\ Len(diff.modified) = 1
    /\ diff.modified[1].eof = "BothMissing"
    /\ LET patch == git_diff.deltas[1].patch[1] IN
       /\ Len(patch) = MaxHunks
       /\ ~HasMarker(patch, {"ContextEOFNL"})
       /\ HasMarker(<< patch[1] >>, {"AddEOFNL"})
       /\ ~HasMarker(<< patch[1] >>, {"DeleteEOFNL"})
       /\ HasMarker(<< patch[2] >>, {"DeleteEOFNL"})
       /\ ~HasMarker(<< patch[MaxHunks] >>, EOFMarkers)

\* The outcome the table gives for a pair of flags.
EofTable(old_missing, new_missing) ==
    CASE old_missing /\ new_missing -> "BothMissing"
      [] old_missing /\ ~new_missing -> "OldMissing"
      [] ~old_missing /\ new_missing -> "NewMissing"
      [] ~old_missing /\ ~new_missing -> "NoneMissing"

(* C14: after all hunks of a file are scanned the outcome is BothMissing   *)
(* for flags (true, true), OldMissing for (true, false), NewMissing for    *)
(* (false, true), NoneMissing for (false, false); every outcome is one of  *)
(* the four values and each of the four is the outcome of some patch.      *)
C14_EofClassificationTable ==
    /\ [][(Handled /\ ReadsPatch /\ delta.status = "Modified") =>
             NewEntry.eof =
                 EofTable(HasMarker(delta.patch[1], {"ContextEOFNL", "AddEOFNL"}),
                          HasMarker(delta.patch[1], {"ContextEOFNL", "DeleteEOFNL"}))
       ]_vars
    /\ [](\A v \in {"BothMissing", "OldMissing", "NewMissing", "NoneMissing"} :
            \E p \in PatchesOver(HunkSamples, 1) :
                /\ DiffContent_try_from(p).ok
                /\ DiffContent_try_from(p).value.eof = v)

C14_Witness ==
    /\ pc = "ok" /\ Len(diff.modified) = 1
    /\ diff.modified[1].eof = "OldMissing"
    /\ LET patch == git_diff.deltas[1].patch[1] IN
       /\ Len(patch) = 2
       /\ ~HasMarker(<< patch[1] >>, EOFMarkers)
       /\ HasMarker(<< patch[2] >>, {"AddEOFNL"})

\* The hunks converted from a patch hold nothing of its marker records:
\* each has as many lines as its native hunk has records that are not
\* markers, and every line has the content of one of those.
MarkerFree(patch, hunks) ==
    /\ DOMAIN hunks = DOMAIN patch
    /\ \A h \in DOMAIN patch :
          /\ Len(hunks[h].lines) =
                Cardinality({ l \in DOMAIN patch[h].lines :
                                IsOrdinary(patch[h].lines[l]) })
          /\ \A j \in DOMAIN hunks[h].lines :
                \E l \in DOMAIN patch[h].lines :
                    /\ IsOrdinary(patch[h].lines[l])
                    /\ hunks[h].lines[j].line = patch[h].lines[l].content

DeltasOf(status) ==
    { i \in DOMAIN git_diff.deltas : git_diff.deltas[i].status = status }

\* The step appended exactly one entry to the given list and left the
\* other lists and the entries already recorded as they were.
AppendedTo(l) ==
    /\ Len(diff'[l]) = Len(diff[l]) + 1
    /\ SubSeq(diff'[l], 1, Len(diff[l])) = diff[l]
    /\ \A k \in Lists \ {l} : diff'[k] = diff[k]

(* C16: a delta that converts appends exactly one entry to exactly one     *)
(* list: added to created with the path of the new side, deleted to        *)
(* deleted with the path of the old side, modified to modified with the    *)
(* path of the new side, renamed to moved and copied to copied as a pair   *)
(* {old_path, new_path} without content diff; a converted backend diff     *)
(* holds one entry per delta, in the list of its status.                   *)
C16_DeltaClassification ==
    /\ [][Handled =>
             /\ delta.status = "Added" =>
                   /\ AppendedTo("created")
                   /\ NewEntry.path = delta.new_file.path[1]
             /\ delta.status = "Deleted" =>
                   /\ AppendedTo("deleted")
                   /\ NewEntry.path = delta.old_file.path[1]
             /\ delta.status = "Modified" =>
                   /\ AppendedTo("modified")
                   /\ NewEntry.path = delta.new_file.path[1]
             /\ delta.status = "Renamed" =>
                   /\ AppendedTo("moved")
                   /\ NewEntry = [old_path |-> delta.old_file.path[1],
                                  new_path |-> delta.new_file.path[1]]
             /\ delta.status = "Copied" =>
                   /\ AppendedTo("copied")
                   /\ NewEntry = [old_path |-> delta.old_file.path[1],
                                  new_path |-> delta.new_file.path[1]]
       ]_vars
    /\ [](pc = "ok" =>
            /\ Len(diff.created) = Cardinality(DeltasOf("Added"))
            /\ Len(diff.deleted) = Cardinality(DeltasOf("Deleted"))
            /\ Len(diff.modified) = Cardinality(DeltasOf("Modified"))
            /\ Len(diff.moved) = Cardinality(DeltasOf("Renamed"))
            /\ Len(diff.copied) = Cardinality(DeltasOf("Copied")))

C16_Witness ==
    /\ pc = "ok"
    /\ Len(git_diff.deltas) = MaxDeltas
    /\ diff.moved # <<>>
    /\ \E i \in DeltasOf("Modified") :
          /\ git_diff.deltas[i].old_file.path # git_diff.deltas[i].new_file.path
          /\ git_diff.deltas[i].old_file.path # <<>>
          /\ diff.modified[1].path = git_diff.deltas[i].new_file.path[1]

HandledStatuses == {"Added", "Deleted", "Modified", "Renamed", "Copied"}

(* C17: a delta whose status is none of added, deleted, modified, renamed  *)
(* and copied makes the conversion return the unhandled-delta-kind error   *)
(* carrying that status; it is never skipped (no conversion of a backend   *)
(* diff with such a delta returns a Diff) and never recorded in a list.    *)
C17_UnknownDeltaFails ==
    /\ [][(Converting /\ delta.status \notin HandledStatuses) =>
             /\ pc' = "err"
             /\ error' = << [type |-> "DeltaUnhandled", status |-> delta.status] >>
             /\ diff' = diff
       ]_vars
    /\ [](pc = "ok" =>
            \A i \in DOMAIN git_diff.deltas :
                git_diff.deltas[i].status \in HandledStatuses)
    /\ [](Len(diff.created) + Len(diff.deleted) + Len(diff.modified)
            + Len(diff.moved) + Len(diff.copied)
          <= Cardinality({ i \in DOMAIN git_diff.deltas :
                             git_diff.deltas[i].status \in HandledStatuses }))

C17_Witness ==
    /\ pc = "err" /\ idx = 2
    /\ error = << [type |-> "DeltaUnhandled", status |-> "Typechange"] >>
    /\ git_diff.deltas[2].patch # <<>>
    /\ git_diff.deltas[1].status = "Added" /\ Len(diff.created) = 1

(* C18 as stated: a delta of a handled status with the path of either     *)
(* side unavailable makes the conversion fail with PathUnavailable, and no *)
(* entry is added for it.                                                  *)
C18_EitherSidePathMissing ==
    [][(Converting /\ delta.status \in HandledStatuses
           /\ (delta.old_file.path = <<>> \/ delta.new_file.path = <<>>)) =>
         /\ pc' = "err"
         /\ error' = << [type |-> "PathUnavailable"] >>
         /\ diff' = diff
    ]_vars

\* The sides of a delta whose path its handler asks for.
PathsAskedFor(d) ==
    CASE d.status \in {"Added", "Modified"} -> { d.new_file.path }
      [] d.status = "Deleted" -> { d.old_file.path }
      [] d.status \in {"Renamed", "Copied"} -> { d.old_file.path, d.new_file.path }

(* C18 amended: a delta makes the conversion fail with PathUnavailable,    *)
(* with no entry added, exactly when a path its handler asks for is        *)
(* unavailable: the new side of an added or modified delta, the old side   *)
(* of a deleted delta, either side of a renamed or copied delta. The other *)
(* side of an added, deleted or modified delta is not looked at.           *)
C18_MissingPathFails ==
    [][(Converting /\ delta.status \in HandledStatuses) =>
         /\ <<>> \in PathsAskedFor(delta) =>
               /\ pc' = "err"
               /\ error' = << [type |-> "PathUnavailable"] >>
               /\ diff' = diff
         /\ <<>> \notin PathsAskedFor(delta) =>
               error' # << [type |-> "PathUnavailable"] >>
    ]_vars

C18_Witness ==
    /\ pc = "err" /\ idx = 2
    /\ error = << [type |-> "PathUnavailable"] >>
    /\ git_diff.deltas[1].status = "Modified"
    /\ git_diff.deltas[1].old_file.path = <<>>
    /\ Len(diff.modified) = 1
    /\ git_diff.deltas[2].status = "Deleted"
    /\ git_diff.deltas[2].old_file.path = <<>>
    /\ git_diff.deltas[2].new_file.path # <<>>
    /\ diff.deleted = <<>>

(* C19: an added, deleted or modified delta whose file is not binary and   *)
(* for which the backend yields no patch makes the conversion fail, with   *)
(* PatchUnavailable(path) when the path of the file is available; no entry *)
(* is recorded for it and the conversion does not go on past it.           *)
C19_MissingPatchFails ==
    [][(Converting /\ delta.status \in {"Added", "Deleted", "Modified"}
           /\ delta.patch = <<>> /\ ~RecordedSide(delta).is_binary) =>
         /\ pc' = "err"
         /\ diff' = diff
         /\ idx' = idx
         /\ RecordedSide(delta).path # <<>> =>
               error' = << [type |-> "PatchUnavailable",
                            path |-> RecordedSide(delta).path[1]] >>
    ]_vars

C19_Witness ==
    /\ pc = "err" /\ idx = 2
    /\ error = << [type |-> "PatchUnavailable", path |-> SamplePath] >>
    /\ git_diff.deltas[2].status = "Deleted"
    /\ diff.deleted = <<>>
    /\ Len(diff.created) = 1

(* C20: a delta whose file the backend reports as binary is recorded with  *)
(* a Binary content-diff, whether or not the backend yields a patch for    *)
(* it; the entry carries no hunks and no EOF outcome.                      *)
C20_BinarySkipsHunks ==
    [][(Converting /\ delta.status \in {"Added", "Deleted", "Modified"}
           /\ RecordedSide(delta).path # <<>>
           /\ RecordedSide(delta).is_binary) =>
         /\ Handled
         /\ NewEntry.diff = [type |-> "Binary"]
         /\ delta.status = "Modified" => NewEntry.eof = "None"
    ]_vars

\* The number of entries in the five lists of a Diff.
TotalEntries(d) ==
    Len(d.created) + Len(d.deleted) + Len(d.modified) + Len(d.moved)
    + Len(d.copied)

\* A delta that no handler converts: its status is not handled, a path its
\* handler asks for is unavailable, there is neither a patch nor a binary
\* file, or its patch has a line without line numbers.
Unconvertible(d) ==
    \/ d.status \notin HandledStatuses
    \/ <<>> \in PathsAskedFor(d)
    \/ /\ d.status \in {"Added", "Deleted", "Modified"}
       /\ \/ d.patch = <<>> /\ ~RecordedSide(d).is_binary
          \/ /\ d.patch # <<>>
             /\ \E pos \in Records(d.patch[1]) :
                   /\ IsOrdinary(RecordAt(d.patch[1], pos))
                   /\ NoPosition(RecordAt(d.patch[1], pos))

ErrorTypes ==
    {"Git", "DeltaUnhandled", "PathUnavailable", "PatchUnavailable", "Hunk"}

(* C21: the conversion of a backend diff either converts every delta and   *)
(* returns a Diff with an entry for each, or stops at the first delta that *)
(* cannot be converted (or at the failing stats of the backend) and        *)
(* returns one typed error: nothing is returned besides the error, no      *)
(* step follows the failure and no later delta is processed.               *)
C21_AtomicFailure ==
    /\ [](pc = "ok" =>
            /\ error = <<>>
            /\ idx = Len(git_diff.deltas) + 1
            /\ TotalEntries(diff) = Len(git_diff.deltas)
            /\ \A i \in DOMAIN git_diff.deltas : ~Unconvertible(git_diff.deltas[i]))
    /\ [](pc = "err" =>
            /\ Len(error) = 1 /\ error[1].type \in ErrorTypes
            /\ idx = 0 => (~git_diff.stats_ok /\ TotalEntries(diff) = 0)
            /\ idx > 0 =>
                  /\ idx \in DOMAIN git_diff.deltas
                  /\ Unconvertible(git_diff.deltas[idx])
                  /\ \A i \in 1..(idx - 1) : ~Unconvertible(git_diff.deltas[i])
                  /\ TotalEntries(diff) = idx - 1)
    /\ [](pc = "try_from" => error = <<>>)
    /\ [][pc # "err"]_vars

C21_Witness ==
    /\ pc = "err" /\ idx = 1
    /\ error = << error_Hunk(error_Line(error_Invalid)) >>
    /\ Len(git_diff.deltas) = 2
    /\ ~Unconvertible(git_diff.deltas[2])
    /\ TotalEntries(diff) = 0

\* The list an append operation appends to.
ListOfOp(op) ==
    CASE op = "add_created_file" -> "created"
      [] op = "add_deleted_file" -> "deleted"
      [] op = "add_modified_file" -> "modified"
      [] op = "add_modified_binary_file" -> "modified"
      [] op = "add_moved_file" -> "moved"
      [] op = "add_copied_file" -> "copied"

(* C22: every append operation appends exactly one entry at the end of     *)
(* exactly one list (add-created to created, add-deleted to deleted,       *)
(* add-modified and add-modified-binary to modified, add-moved to moved,   *)
(* add-copied to copied) and leaves the other lists and the entries        *)
(* appended before as they were; no step shrinks a list or alters an       *)
(* entry.                                                                  *)
C22_AppendOnly ==
    /\ [][(pc = "build" /\ last_op' # "stats") => AppendedTo(ListOfOp(last_op'))]_vars
    /\ [][\A l \in Lists :
             /\ Len(diff'[l]) >= Len(diff[l])
             /\ SubSeq(diff'[l], 1, Len(diff[l])) = diff[l]]_vars

C22_Witness ==
    /\ pc = "build"
    /\ last_op = "add_modified_binary_file"
    /\ Len(diff.modified) = 2
    /\ diff.modified[1].diff.type = "Plain" /\ diff.modified[1].diff.hunks # <<>>
    /\ diff.modified[2].diff = Binary
    /\ Len(diff.deleted) = 1

\* The cursors of a frame lie between the first entry and one past the
\* last.
CursorsInRange(f) ==
    /\ f.oi \in 1..(Len(f.old.contents) + 1)
    /\ f.ni \in 1..(Len(f.new.contents) + 1)

(* C23: every iteration of the co-scan loop of a directory level advances  *)
(* at least one of the two cursors and none moves backwards, the cursors   *)
(* never pass the end of their m and n entries (so a level takes at most   *)
(* m + n iterations), and Diff::diff returns a Diff, never an error, for   *)
(* every pair of snapshots.                                                *)
C23_Terminates ==
    /\ [](\A k \in DOMAIN stack : CursorsInRange(stack[k]))
    /\ [][pc = "collect_diff" =>
             /\ \A k \in DOMAIN stack \cap DOMAIN stack' :
                   /\ stack'[k].oi >= stack[k].oi
                   /\ stack'[k].ni >= stack[k].ni
             /\ (Len(stack') <= Len(stack) /\ stack' # <<>>) =>
                   LET k == Len(stack') IN
                   stack'[k].oi + stack'[k].ni > stack[k].oi + stack[k].ni
             /\ Len(stack') > Len(stack) =>
                   /\ Len(stack') = Len(stack) + 1
                   /\ stack'[Len(stack')].oi = 1 /\ stack'[Len(stack')].ni = 1
                   /\ SubSeq(stack', 1, Len(stack)) = stack
       ]_vars
    /\ [](pc \in {"diff", "collect_diff", "done"} /\ error = <<>>)
    /\ <>(pc = "done")

C23_Witness ==
    /\ Done
    /\ \E p \in RelPaths :
          /\ DirectoryAt(old, p) # {} /\ DirectoryAt(new, p) # {}
          /\ \E q \in FilesOf(new) \ FilesOf(old) : IsPrefix(p, q)
    /\ diff.deleted # <<>> /\ diff.modified # <<>>

----------------------------------------------------------------------------
(* C24: independent concurrent diffs. Of two calls of Diff::diff whose     *)
(* steps interleave in any way, each returns the Diff it returns when it   *)
(* runs alone; a step of the running call changes nothing that the other   *)
(* call holds, and a switch hands each call back its own Diff and its own  *)
(* path accumulator.                                                       *)
C24_IndependentDiffs ==
    /\ [](pc = "done" => diff = Diff_diff_alone(old, new))
    /\ [](\A i \in DOMAIN suspended :
            suspended[i].pc = "done" =>
                suspended[i].diff =
                    Diff_diff_alone(suspended[i].old, suspended[i].new))
    /\ [][suspended # <<>> =>
            \/ suspended' = suspended
            \/ suspended' = << Locals >> /\ Locals' = suspended[1]]_vars

\* One call has returned a Diff with entries while the other is suspended
\* inside a subdirectory with entries of its own recorded.
C24_Witness ==
    /\ pc = "done" /\ diff.created # <<>> /\ diff.modified # <<>>
    /\ suspended # <<>>
    /\ suspended[1].pc = "collect_diff"
    /\ Len(suspended[1].stack) = 2
    /\ suspended[1].diff # Diff_new
    /\ suspended[1].old # old

----------------------------------------------------------------------------
(* C25: path uniqueness per category. In the Diff that one comparison of   *)
(* sorted snapshots with unique labels returns, no two entries of created  *)
(* have the same path, nor two of deleted, nor two of modified.            *)
Categories == {"created", "deleted", "modified"}

C25_PathUniqueness ==
    Done =>
        \A l \in Categories :
            \A i, j \in DOMAIN diff[l] :
                diff[l][i].path = diff[l][j].path => i = j

\* A returned Diff with several created and several deleted paths, some of
\* them below a directory, and a modified one.
C25_Witness ==
    /\ Done
    /\ Len(diff.created) >= 2 /\ Len(diff.deleted) >= 2
    /\ Len(diff.modified) >= 1
    /\ \E i \in DOMAIN diff.deleted : Len(diff.deleted[i].path) > 2

----------------------------------------------------------------------------
(* C28: direction symmetry. For sorted snapshots A and B with the same     *)
(* root name, the created paths of Diff::diff(A, B) are the deleted paths  *)
(* of Diff::diff(B, A), the deleted paths of Diff::diff(A, B) are the      *)
(* created paths of Diff::diff(B, A), and both report the same modified    *)
(* paths.                                                                  *)
Opposite(s) ==
    s.old = new /\ s.new = old /\ old.name = new.name

C28_DirectionSymmetry ==
    \A i \in DOMAIN suspended :
        (Done /\ suspended[i].pc = "done" /\ Opposite(suspended[i])) =>
            /\ PathSet(diff.created) = PathSet(suspended[i].diff.deleted)
            /\ PathSet(diff.deleted) = PathSet(suspended[i].diff.created)
            /\ PathSet(diff.modified) = PathSet(suspended[i].diff.modified)

\* Both directions have returned; one of them replaced a directory by a
\* file and reports created, deleted and modified paths.
C28_Witness ==
    /\ Done /\ suspended # <<>>
    /\ suspended[1].pc = "done" /\ Opposite(suspended[1])
    /\ old # new
    /\ diff.created # <<>> /\ diff.deleted # <<>> /\ diff.modified # <<>>
    /\ \E p \in RelPaths : DirectoryAt(old, p) # {} /\ FileAt(new, p) # {}

----------------------------------------------------------------------------
(* C29: category disjointness. In the Diff that Diff::diff returns for     *)
(* sorted snapshots with unique labels, no path is in two of created,      *)
(* deleted and modified.                                                   *)
C29_CategoryDisjointness ==
    Done =>
        /\ PathSet(diff.created) \cap PathSet(diff.deleted) = {}
        /\ PathSet(diff.created) \cap PathSet(diff.modified) = {}
        /\ PathSet(diff.deleted) \cap PathSet(diff.modified) = {}

\* A returned Diff with entries in all three lists, where a file and a
\* directory exchanged places: the created path is a prefix of a deleted
\* one or the other way round.
C29_Witness ==
    /\ Done
    /\ diff.created # <<>> /\ diff.deleted # <<>> /\ diff.modified # <<>>
    /\ \E c \in PathSet(diff.created), d \in PathSet(diff.deleted) :
          IsPrefix(c, d) \/ IsPrefix(d, c)

----------------------------------------------------------------------------
(* C26: hunk fidelity. A converted patch gives one Hunk per native hunk,   *)
(* in the order of the native hunks, each with the header of its native    *)
(* hunk as it is, and the lines of each Hunk follow one another in the     *)
(* order of the native line records they come from. This holds for the     *)
(* conversion to a content-diff and for the conversion to Hunks.           *)

\* The lines are taken from records of `native` at increasing positions.
InOrderOf(lines, native) ==
    \E f \in [DOMAIN lines -> DOMAIN native] :
        /\ \A i, j \in DOMAIN lines : i < j => f[i] < f[j]
        /\ \A i \in DOMAIN lines : lines[i].line = native[f[i]].content

HunkFidelity(hunks, patch) ==
    /\ Len(hunks) = Len(patch)
    /\ \A h \in DOMAIN patch :
          /\ hunks[h].header = patch[h].header
          /\ InOrderOf(hunks[h].lines, patch[h].lines)

C26_HunkFidelity ==
    [][/\ (Handled /\ ReadsPatch) =>
            /\ NewEntry.diff.type = "Plain"
            /\ HunkFidelity(NewEntry.diff.hunks, delta.patch[1])
       /\ (pc = "try_from" /\ pc' = "hunks" /\ result'[1].ok) =>
            HunkFidelity(result'[1].value, git_diff.deltas[1].patch[1])
    ]_vars

\* A file converted from a patch of three hunks, one of them with three
\* lines and one with an EOF marker.
C26_Witness ==
    /\ pc = "ok"
    /\ Len(diff.modified) = 1
    /\ Len(diff.modified[1].diff.hunks) = 3
    /\ \E h \in 1..3 : Len(diff.modified[1].diff.hunks[h].lines) = 3
    /\ \E pos \in Records(git_diff.deltas[1].patch[1]) :
          IsMarker(RecordAt(git_diff.deltas[1].patch[1], pos))

----------------------------------------------------------------------------
(* C27: path accumulator nesting. During a tree diff the accumulator holds *)
(* the root name followed by the names of the directories the running      *)
(* calls of collect_diff descended into, so it has at the return of a call *)
(* the value it had at its entry; a step that enumerates the files of an   *)
(* entry leaves it as it found it; every recorded path is the root name,   *)
(* the names of the ancestor directories of a file and the name of the     *)
(* file; and when Diff::diff returns the accumulator holds the root only.  *)
Descended == [k \in 1..(Len(stack) - 1) |-> stack[k + 1].new.name]

C27_PathNesting ==
    /\ [](pc = "collect_diff" => path = << new.name >> \o Descended)
    /\ [][(pc = "collect_diff" /\ Len(stack') = Len(stack)) =>
             path' = path]_vars
    /\ [](\A p \in RelPaths :
            \A d \in DirectoryAt(old, p) \cup DirectoryAt(new, p) :
                collect_files_inner(d, Abs(p), <<>>).path = Abs(p))
    /\ [](pc \in {"collect_diff", "done"} =>
            \A l \in {"created", "deleted", "modified"} :
                \A i \in DOMAIN diff[l] :
                    \E p \in RelPaths :
                        /\ diff[l][i].path = Abs(p)
                        /\ FileAt(old, p) \cup FileAt(new, p) # {})
    /\ [](Done => path = << new.name >>)

\* A returned Diff with a modified file inside a directory that both
\* snapshots have and a deleted file two directories deep.
C27_Witness ==
    /\ Done
    /\ \E i \in DOMAIN diff.modified : Len(diff.modified[i].path) = 3
    /\ \E i \in DOMAIN diff.deleted : Len(diff.deleted[i].path) = 4

----------------------------------------------------------------------------
(* C30: adapter totality on success. When the conversion of a backend diff *)
(* of k deltas succeeds, the five lists hold k entries together, and the   *)
(* n-th entry of a list comes from the n-th delta of the status that list  *)
(* records: it has the path or the pair of paths of that delta, and it is  *)
(* binary exactly when that delta has no patch.                            *)

\* The n-th smallest element of a set of positions.
Nth(S, n) == CHOOSE i \in S : Cardinality({ j \in S : j < i }) = n - 1

ComesFrom(entry, d) ==
    IF d.status \in {"Renamed", "Copied"}
    THEN entry = [old_path |-> d.old_file.path[1],
                  new_path |-> d.new_file.path[1]]
    ELSE /\ entry.path = RecordedSide(d).path[1]
         /\ entry.diff.type = "Binary" <=> d.patch = <<>>
         /\ entry.diff.type = "Plain" =>
                Len(entry.diff.hunks) = Len(d.patch[1])

C30_TotalityOnSuccess ==
    pc = "ok" =>
        /\ TotalEntries(diff) = Len(git_diff.deltas)
        /\ \A st \in HandledStatuses :
              /\ Len(diff[ListOf(st)]) = Cardinality(DeltasOf(st))
              /\ \A n \in DOMAIN diff[ListOf(st)] :
                    ComesFrom(diff[ListOf(st)][n],
                              git_diff.deltas[Nth(DeltasOf(st), n)])

\* A converted backend diff of two deltas of one status whose entries
\* differ, both in one list.
C30_Witness ==
    /\ pc = "ok"
    /\ Len(git_diff.deltas) = 2
    /\ \E l \in {"created", "deleted", "modified"} :
          Len(diff[l]) = 2 /\ diff[l][1] # diff[l][2]

============================================================================
